---- MODULE Spec2Model ----
(***************************************************************************)
(* Model of train.py: a single-shot fine-tuning script.  The script reads   *)
(* its configuration from the environment and the command line, loads two  *)
(* datasets, a model and a tokenizer, delegates training to a Trainer,     *)
(* evaluates once more, writes eval_results.txt and saves the model.       *)
(* compute_metrics, the callback handed to the Trainer, is modelled as an  *)
(* operator over exact fractions <<numerator, denominator>>.               *)
(***************************************************************************)
EXTENDS Integers, Sequences, FiniteSets, TLC

VARIABLES
    pc,           \* position of the script (the statement about to run)
    failedAt,     \* stage whose statement raised, "none" while running
    trace,        \* operations started so far, in order
    environ,      \* os.environ restricted to the five SM_* variables
    argv,         \* the command line: flag -> raw string, NoArg when absent
    defaults,     \* defaults registered by add_argument for the five flags
    args,         \* namespace returned by parse_known_args
    stdout,       \* number of print()/logger lines emitted
    train_dataset,
    test_dataset, \* label vector of the loaded test set
    model,        \* parameter counts of the loaded model
    tokenizer,
    training_args,
    trainer,      \* behaviour of the external Trainer
    epochs_done,
    epoch_evals,  \* results of the evaluations done inside trainer.train()
    eval_result,  \* result of the explicit trainer.evaluate()
    loads,        \* load_from_disk calls attempted
    file0,        \* eval_results.txt before the run
    file,         \* eval_results.txt now: NoFile or a sequence of lines
    writer,       \* "closed", "open"
    towrite,      \* sorted items still to be written by the for loop
    saved,        \* model directory written by save_model
    m_pc,         \* compute_metrics driver: "input", "returned"
    m_labels,     \* pred.label_ids
    m_logits,     \* pred.predictions
    m_result      \* mapping returned by compute_metrics

vars == <<pc, failedAt, trace, environ, argv, defaults, args, stdout,
          train_dataset, test_dataset, model, tokenizer, training_args,
          trainer, epochs_done, epoch_evals, eval_result, loads, file0, file,
          writer, towrite, saved, m_pc, m_labels, m_logits, m_result>>

runVars == <<pc, failedAt, trace, environ, argv, defaults, args, stdout,
             train_dataset, test_dataset, model, tokenizer, training_args,
             trainer, epochs_done, epoch_evals, eval_result, loads, file0,
             file, writer, towrite, saved>>

metricVars == <<m_pc, m_labels, m_logits, m_result>>

----------------------------------------------------------------------------
(* Bounds *)

MaxEpochs == 2      \* largest --epochs value supplied
TestSize == 1       \* examples in the test dataset of a run
MaxLen == 3         \* largest batch handed to compute_metrics directly
MaxArgs == 1        \* options on the command line besides --model_name

----------------------------------------------------------------------------
(* Values *)

NoArg == "<absent>"
None == "<None>"
NoFile == "<no file>"

RequiredEnv ==
    <<"SM_OUTPUT_DATA_DIR", "SM_MODEL_DIR", "SM_NUM_GPUS",
      "SM_CHANNEL_TRAIN", "SM_CHANNEL_TEST">>

DirFlags ==
    <<"output_data_dir", "model_dir", "n_gpus", "training_dir", "test_dir">>

IntFlags == {"epochs", "train_batch_size", "eval_batch_size", "warmup_steps"}

DefaultEpochs == 1
DefaultTrainBatchSize == 32
DefaultEvalBatchSize == 64
DefaultWarmupSteps == 500

IntDefault ==
    [epochs |-> DefaultEpochs, train_batch_size |-> DefaultTrainBatchSize,
     eval_batch_size |-> DefaultEvalBatchSize,
     warmup_steps |-> DefaultWarmupSteps]

Digits == <<"0", "1", "2", "3", "4", "5", "6", "7", "8", "9">>

\* int(s) as argparse applies it to a raw argument string
IsInt(s) == \E n \in 1..Len(Digits) : Digits[n] = s
PyInt(s) == (CHOOSE n \in 1..Len(Digits) : Digits[n] = s) - 1

\* float(x): x is the parser's float default or a raw argument string
LearningRateDefault == [type |-> "float", v |-> "5e-05"]
RawString(s) == [type |-> "str", v |-> s]
IsFloat(x) == x.type = "float" \/ x.v \in {"5e-5", "0.001"}
PyFloat(x) ==
    IF x.type = "float" THEN x
    ELSE [type |-> "float", v |-> IF x.v = "5e-5" THEN "5e-05" ELSE x.v]

----------------------------------------------------------------------------
(* Exact fractions <<n, d>>, d > 0, in lowest terms *)

RECURSIVE GCD(_, _)
GCD(a, b) == IF b = 0 THEN a ELSE GCD(b, a % b)

Frac(n, d) == LET g == GCD(n, d) IN <<n \div g, d \div g>>
Zero == <<0, 1>>
One == <<1, 1>>

----------------------------------------------------------------------------
(* compute_metrics *)

\* numpy argmax over the last axis: index of the first maximum
ArgMax(row) ==
    CHOOSE i \in 0..(Len(row) - 1) :
        /\ \A j \in 0..(Len(row) - 1) : row[j + 1] <= row[i + 1]
        /\ \A j \in 0..(i - 1) : row[j + 1] < row[i + 1]

Preds(logits) == [i \in 1..Len(logits) |-> ArgMax(logits[i])]

Count(labels, preds, l, p) ==
    Cardinality({i \in 1..Len(labels) : labels[i] = l /\ preds[i] = p})

\* zero_division=1 in place of the default
PrfDivideOne(n, d) == IF d = 0 THEN One ELSE Frac(n, d)

\* sklearn _prf_divide with zero_division="warn": 0.0 where the
\* denominator is zero
PrfDivide(n, d) == IF d = 0 THEN Zero ELSE Frac(n, d)

\* precision and recall taken in the wrong order
precision_recall_fscore_supportSwapped(labels, preds) ==
    LET tp_sum == Count(labels, preds, 1, 1)
        pred_sum == Cardinality({i \in 1..Len(preds) : preds[i] = 1})
        true_sum == Cardinality({i \in 1..Len(labels) : labels[i] = 1})
    IN  [precision |-> PrfDivide(tp_sum, true_sum),
         recall |-> PrfDivide(tp_sum, pred_sum),
         f1 |-> PrfDivide(2 * tp_sum, true_sum + pred_sum)]

\* precision_recall_fscore_support(labels, preds, average="binary"):
\* pos_label = 1, beta = 1
precision_recall_fscore_support(labels, preds) ==
    LET tp_sum == Count(labels, preds, 1, 1)
        pred_sum == Cardinality({i \in 1..Len(preds) : preds[i] = 1})
        true_sum == Cardinality({i \in 1..Len(labels) : labels[i] = 1})
    IN  [precision |-> PrfDivide(tp_sum, pred_sum),
         recall |-> PrfDivide(tp_sum, true_sum),
         f1 |-> PrfDivide(2 * tp_sum, true_sum + pred_sum)]

\* normalize=False: the number of hits instead of their fraction
accuracy_scoreCount(labels, preds) ==
    Frac(Cardinality({i \in 1..Len(labels) : labels[i] = preds[i]}), 1)

accuracy_score(labels, preds) ==
    Frac(Cardinality({i \in 1..Len(labels) : labels[i] = preds[i]}),
         Len(labels))

compute_metrics(logits, labels) ==
    LET preds == Preds(logits)
        prf == precision_recall_fscore_support(labels, preds)
    IN  [accuracy |-> accuracy_score(labels, preds), f1 |-> prf.f1,
         precision |-> prf.precision, recall |-> prf.recall]

----------------------------------------------------------------------------
(* Strings: keys of the evaluation mapping and Python's ordering on them *)

MetricKeys == {"accuracy", "f1", "precision", "recall"}

\* code points of the keys, for str.__lt__
KeyCodes ==
    ("accuracy" :> <<97, 99, 99, 117, 114, 97, 99, 121>>) @@
    ("f1" :> <<102, 49>>) @@
    ("precision" :> <<112, 114, 101, 99, 105, 115, 105, 111, 110>>) @@
    ("recall" :> <<114, 101, 99, 97, 108, 108>>) @@
    ("epoch" :> <<101, 112, 111, 99, 104>>) @@
    ("eval_accuracy" :> <<101, 118, 97, 108, 95, 97, 99, 99, 117, 114, 97, 99, 121>>) @@
    ("eval_f1" :> <<101, 118, 97, 108, 95, 102, 49>>) @@
    ("eval_precision" :> <<101, 118, 97, 108, 95, 112, 114, 101, 99, 105, 115, 105, 111, 110>>) @@
    ("eval_recall" :> <<101, 118, 97, 108, 95, 114, 101, 99, 97, 108, 108>>) @@
    ("eval_loss" :> <<101, 118, 97, 108, 95, 108, 111, 115, 115>>)

\* Python's < on str: lexicographic by code point, a proper prefix is smaller
RECURSIVE CodesLess(_, _, _)
CodesLess(ca, cb, i) ==
    IF i > Len(ca) THEN i <= Len(cb)
    ELSE IF i > Len(cb) THEN FALSE
    ELSE IF ca[i] # cb[i] THEN ca[i] < cb[i]
    ELSE CodesLess(ca, cb, i + 1)

KeyLess(a, b) == CodesLess(KeyCodes[a], KeyCodes[b], 1)

\* sorted(..., reverse=True)
RECURSIVE SortedItemsReverse(_)
SortedItemsReverse(d) ==
    IF DOMAIN d = {} THEN <<>>
    ELSE LET m == CHOOSE k \in DOMAIN d :
                      \A j \in DOMAIN d \ {k} : KeyLess(j, k)
         IN  <<<<m, d[m]>>>>
                 \o SortedItemsReverse([k \in DOMAIN d \ {m} |-> d[k]])

\* sorted(d.items()): keys are unique, so the pairs are ordered by key
RECURSIVE SortedItems(_)
SortedItems(d) ==
    IF DOMAIN d = {} THEN <<>>
    ELSE LET m == CHOOSE k \in DOMAIN d :
                      \A j \in DOMAIN d \ {k} : KeyLess(k, j)
         IN  <<<<m, d[m]>>>> \o SortedItems([k \in DOMAIN d \ {m} |-> d[k]])

\* str() of a float holding the fraction v
PyStr(v) ==
    CASE v = <<0, 1>> -> "0.0"
      [] v = <<1, 1>> -> "1.0"
      [] v = <<2, 1>> -> "2.0"
      [] v = <<3, 1>> -> "3.0"
      [] v = <<1, 2>> -> "0.5"
      [] v = <<1, 3>> -> "0.3333333333333333"
      [] v = <<2, 3>> -> "0.6666666666666666"
      [] v = <<1, 4>> -> "0.25"
      [] v = <<3, 4>> -> "0.75"
      [] v = <<1, 5>> -> "0.2"
      [] v = <<2, 5>> -> "0.4"
      [] v = <<3, 5>> -> "0.6"
      [] v = <<4, 5>> -> "0.8"
      [] v = <<1, 6>> -> "0.16666666666666666"
      [] v = <<5, 6>> -> "0.8333333333333334"

\* f"{key} = {value}\n"
FormatLine(key, value) == key \o " = " \o PyStr(value) \o "\n"

----------------------------------------------------------------------------
(* The external Trainer *)

\* what Trainer.evaluate does to the mapping of compute_metrics: the keys
\* are passed through or prefixed, and keys of its own are added
TrainerKinds ==
    { [prefix |-> "", extra |-> {}],
      [prefix |-> "eval_", extra |-> {"eval_loss", "epoch"}] }

\* rows of scores a model emits for one test example during a run
RunRows == {<<0, 1>>, <<1, 0>>, <<1, 1>>}

\* one evaluation pass over the test dataset with the given model outputs
EvaluationLoop(tr, labels, logits, epoch) ==
    LET m == compute_metrics(logits, labels)
        wrong == Cardinality({i \in 1..Len(labels) :
                                 labels[i] # Preds(logits)[i]})
        keys == {tr.prefix \o k : k \in MetricKeys} \cup tr.extra
    IN  [k \in keys |->
            CASE k = tr.prefix \o "accuracy" -> m.accuracy
              [] k = tr.prefix \o "f1" -> m.f1
              [] k = tr.prefix \o "precision" -> m.precision
              [] k = tr.prefix \o "recall" -> m.recall
              [] k = "epoch" -> Frac(epoch, 1)
              [] OTHER -> Frac(wrong, Len(labels))]

----------------------------------------------------------------------------
(* Inputs of a run *)

EnvNames == {RequiredEnv[i] : i \in 1..Len(RequiredEnv)}
DirFlagNames == {DirFlags[i] : i \in 1..Len(DirFlags)}
OptionFlags == DirFlagNames \cup IntFlags \cup {"learning_rate"}
AllFlags == OptionFlags \cup {"model_name"}

EnvironmentOf(present) == [v \in present |-> "/env/" \o v]

\* raw strings a flag is given on the command line
OptionValues(f) ==
    CASE f \in DirFlagNames -> {"/cli/" \o f}
      [] f = "epochs" -> {Digits[n + 1] : n \in 0..MaxEpochs} \cup {"abc"}
      [] f \in IntFlags \ {"epochs"} -> {"8", "abc"}
      [] f = "learning_rate" -> {"5e-5", "abc"}
      [] f = "model_name" -> {"bert-base"}

RECURSIVE Assignments(_)
Assignments(D) ==
    IF D = {} THEN {[x \in {} |-> NoArg]}
    ELSE LET k == CHOOSE k \in D : TRUE
         IN  {(k :> v) @@ f : v \in OptionValues(k), f \in Assignments(D \ {k})}

CommandLines ==
    UNION {Assignments(D \cup M) :
              D \in {S \in SUBSET OptionFlags : Cardinality(S) <= MaxArgs},
              M \in {{}, {"model_name"}}}

StaleFile == "stale = 1.0\n"

Init ==
    /\ pc = "add_hyper"
    /\ failedAt = "none"
    /\ trace = <<>>
    /\ environ \in {EnvironmentOf(P) : P \in SUBSET EnvNames}
    /\ argv \in CommandLines
    /\ defaults = [x \in {} |-> None]
    /\ args = [x \in {} |-> None]
    /\ stdout = 0
    /\ train_dataset = None
    /\ test_dataset = None
    /\ model = None
    /\ tokenizer = None
    /\ training_args = None
    /\ trainer = None
    /\ epochs_done = 0
    /\ epoch_evals = <<>>
    /\ eval_result = [x \in {} |-> Zero]
    /\ loads = 0
    /\ file0 \in {NoFile, StaleFile}
    /\ file = file0
    /\ writer = "closed"
    /\ towrite = <<>>
    /\ saved = FALSE
    /\ m_pc = "idle"
    /\ m_labels = <<>>
    /\ m_logits = <<>>
    /\ m_result = [x \in {} |-> Zero]

----------------------------------------------------------------------------
(* The script, statement by statement *)

\* an uncaught exception: the interpreter unwinds and the process ends
Raise(stage) ==
    /\ pc' = "failed"
    /\ failedAt' = stage

\* lines 30-38: the parser and the hyperparameter options
AddHyperparameterArguments ==
    /\ pc = "add_hyper"
    /\ pc' = "add_dir"
    /\ trace' = Append(trace, "Configure")
    /\ defaults' = [f \in IntFlags \cup {"model_name", "learning_rate"} |->
                       CASE f \in IntFlags -> IntDefault[f]
                         [] f = "model_name" -> None
                         [] f = "learning_rate" -> LearningRateDefault]
    /\ UNCHANGED <<failedAt, environ, argv, args, stdout, train_dataset,
                   test_dataset, model, tokenizer, training_args, trainer,
                   epochs_done, epoch_evals, eval_result, loads, file0, file,
                   writer, towrite, saved, metricVars>>

\* the next of lines 41-45 to run
NextDir == Cardinality(DOMAIN defaults \cap DirFlagNames) + 1

\* os.environ.get(...) in place of os.environ[...]
AddDirArgumentGet ==
    /\ pc = "add_dir"
    /\ defaults' = (DirFlags[NextDir] :>
                       IF RequiredEnv[NextDir] \in DOMAIN environ
                       THEN environ[RequiredEnv[NextDir]] ELSE None)
                      @@ defaults
    /\ pc' = IF NextDir = Len(DirFlags) THEN "parse" ELSE "add_dir"
    /\ UNCHANGED <<failedAt, trace, environ, argv, args, stdout,
                   train_dataset, test_dataset, model, tokenizer,
                   training_args, trainer, epochs_done, epoch_evals,
                   eval_result, loads, file0, file, writer, towrite, saved,
                   metricVars>>

\* lines 41-45, one add_argument: os.environ[...] is evaluated for the
\* default whatever the command line holds
AddDirArgument ==
    /\ pc = "add_dir"
    /\ RequiredEnv[NextDir] \in DOMAIN environ
    /\ defaults' = (DirFlags[NextDir] :> environ[RequiredEnv[NextDir]])
                      @@ defaults
    /\ pc' = IF NextDir = Len(DirFlags) THEN "parse" ELSE "add_dir"
    /\ UNCHANGED <<failedAt, trace, environ, argv, args, stdout,
                   train_dataset, test_dataset, model, tokenizer,
                   training_args, trainer, epochs_done, epoch_evals,
                   eval_result, loads, file0, file, writer, towrite, saved,
                   metricVars>>

\* the variable is looked up only when its flag is not on the command line
AddDirArgumentKeyErrorUnlessFlag ==
    /\ pc = "add_dir"
    /\ RequiredEnv[NextDir] \notin DOMAIN environ
    /\ IF DirFlags[NextDir] \in DOMAIN argv
       THEN /\ defaults' = (DirFlags[NextDir] :> None) @@ defaults
            /\ pc' = IF NextDir = Len(DirFlags) THEN "parse" ELSE "add_dir"
            /\ UNCHANGED failedAt
       ELSE /\ Raise("Configure")
            /\ UNCHANGED defaults
    /\ UNCHANGED <<trace, environ, argv, args, stdout,
                   train_dataset, test_dataset, model, tokenizer,
                   training_args, trainer, epochs_done, epoch_evals,
                   eval_result, loads, file0, file, writer, towrite, saved,
                   metricVars>>

\* lines 41-45: KeyError from os.environ[...]
AddDirArgumentKeyError ==
    /\ pc = "add_dir"
    /\ RequiredEnv[NextDir] \notin DOMAIN environ
    /\ Raise("Configure")
    /\ UNCHANGED <<trace, environ, argv, defaults, args, stdout,
                   train_dataset, test_dataset, model, tokenizer,
                   training_args, trainer, epochs_done, epoch_evals,
                   eval_result, loads, file0, file, writer, towrite, saved,
                   metricVars>>

\* the value argparse stores for a flag
Parsed(f) ==
    IF f \notin DOMAIN argv THEN defaults[f]
    ELSE CASE f \in IntFlags -> PyInt(argv[f])
           [] f = "learning_rate" -> RawString(argv[f])
           [] OTHER -> argv[f]

\* type=int rejects the raw string of some supplied option
BadInt == \E f \in IntFlags \cap DOMAIN argv : ~IsInt(argv[f])

\* line 47
ParseKnownArgs ==
    /\ pc = "parse"
    /\ ~BadInt
    /\ args' = [f \in AllFlags |-> Parsed(f)]
    /\ pc' = "print_args"
    /\ UNCHANGED <<failedAt, trace, environ, argv, defaults, stdout,
                   train_dataset, test_dataset, model, tokenizer,
                   training_args, trainer, epochs_done, epoch_evals,
                   eval_result, loads, file0, file, writer, towrite, saved,
                   metricVars>>

\* line 47: parser.error, SystemExit(2)
ParseKnownArgsError ==
    /\ pc = "parse"
    /\ BadInt
    /\ Raise("Configure")
    /\ UNCHANGED <<trace, environ, argv, defaults, args, stdout,
                   train_dataset, test_dataset, model, tokenizer,
                   training_args, trainer, epochs_done, epoch_evals,
                   eval_result, loads, file0, file, writer, towrite, saved,
                   metricVars>>

\* lines 49-60
PrintArgs ==
    /\ pc = "print_args"
    /\ stdout' = stdout + 5
    /\ pc' = "load_train"
    /\ UNCHANGED <<failedAt, trace, environ, argv, defaults, args,
                   train_dataset, test_dataset, model, tokenizer,
                   training_args, trainer, epochs_done, epoch_evals,
                   eval_result, loads, file0, file, writer, towrite, saved,
                   metricVars>>

\* line 63
LoadTrainDataset ==
    /\ pc = "load_train"
    /\ trace' = Append(trace, "LoadTrain")
    /\ loads' = loads + 1
    /\ train_dataset' = [path |-> args["training_dir"]]
    /\ pc' = "load_test"
    /\ UNCHANGED <<failedAt, environ, argv, defaults, args, stdout,
                   test_dataset, model, tokenizer, training_args, trainer,
                   epochs_done, epoch_evals, eval_result, file0, file, writer,
                   towrite, saved, metricVars>>

\* line 63: load_from_disk raises
LoadTrainDatasetFails ==
    /\ pc = "load_train"
    /\ trace' = Append(trace, "LoadTrain")
    /\ loads' = loads + 1
    /\ Raise("LoadData")
    /\ UNCHANGED <<environ, argv, defaults, args, stdout, train_dataset,
                   test_dataset, model, tokenizer, training_args, trainer,
                   epochs_done, epoch_evals, eval_result, file0, file, writer,
                   towrite, saved, metricVars>>

\* lines 64-67: the labels are whatever the directory holds
LoadTestDataset ==
    /\ pc = "load_test"
    /\ trace' = Append(trace, "LoadTest")
    /\ loads' = loads + 1
    /\ \E labels \in [1..TestSize -> {0, 1}] :
           test_dataset' = [path |-> args["test_dir"], labels |-> labels]
    /\ stdout' = stdout + 2
    /\ pc' = "load_model"
    /\ UNCHANGED <<failedAt, environ, argv, defaults, args, train_dataset,
                   model, tokenizer, training_args, trainer, epochs_done,
                   epoch_evals, eval_result, file0, file, writer, towrite,
                   saved, metricVars>>

\* line 64: load_from_disk raises
LoadTestDatasetFails ==
    /\ pc = "load_test"
    /\ trace' = Append(trace, "LoadTest")
    /\ loads' = loads + 1
    /\ Raise("LoadData")
    /\ UNCHANGED <<environ, argv, defaults, args, stdout, train_dataset,
                   test_dataset, model, tokenizer, training_args, trainer,
                   epochs_done, epoch_evals, eval_result, file0, file, writer,
                   towrite, saved, metricVars>>

\* weights a from_pretrained call may deliver: (all_param, trainable_params)
Models == {[all_param |-> 0, trainable_params |-> 0],
           [all_param |-> 2, trainable_params |-> 1]}

\* line 78: resolves args.model_name
LoadModel ==
    /\ pc = "load_model"
    /\ trace' = Append(trace, "LoadModel")
    /\ args["model_name"] # None
    /\ model' \in Models
    /\ pc' = "print_params"
    /\ UNCHANGED <<failedAt, environ, argv, defaults, args, stdout,
                   train_dataset, test_dataset, tokenizer, training_args,
                   trainer, epochs_done, epoch_evals, eval_result, loads,
                   file0, file, writer, towrite, saved, metricVars>>

\* the failed download is attempted once more
LoadModelRetries ==
    /\ pc = "load_model"
    /\ Len(trace) < 5
    /\ trace' = Append(trace, "LoadModel")
    /\ UNCHANGED <<pc, failedAt, environ, argv, defaults, args, stdout,
                   train_dataset, test_dataset, model, tokenizer,
                   training_args, trainer, epochs_done, epoch_evals,
                   eval_result, loads, file0, file, writer, towrite, saved,
                   metricVars>>

\* line 78: from_pretrained raises (always so for model_name None)
LoadModelFails ==
    /\ pc = "load_model"
    /\ trace' = Append(trace, "LoadModel")
    /\ Raise("LoadModel")
    /\ UNCHANGED <<environ, argv, defaults, args, stdout, train_dataset,
                   test_dataset, model, tokenizer, training_args, trainer,
                   epochs_done, epoch_evals, eval_result, loads, file0, file,
                   writer, towrite, saved, metricVars>>

\* lines 12-26, 80
print_trainable_parameters ==
    /\ pc = "print_params"
    /\ model.all_param # 0
    /\ stdout' = stdout + 1
    /\ pc' = "load_tokenizer"
    /\ UNCHANGED <<failedAt, trace, environ, argv, defaults, args,
                   train_dataset, test_dataset, model, tokenizer,
                   training_args, trainer, epochs_done, epoch_evals,
                   eval_result, loads, file0, file, writer, towrite, saved,
                   metricVars>>

\* line 26: 100 * trainable_params / all_param with all_param = 0
print_trainable_parametersZeroDivision ==
    /\ pc = "print_params"
    /\ model.all_param = 0
    /\ Raise("LoadModel")
    /\ UNCHANGED <<trace, environ, argv, defaults, args, stdout,
                   train_dataset, test_dataset, model, tokenizer,
                   training_args, trainer, epochs_done, epoch_evals,
                   eval_result, loads, file0, file, writer, towrite, saved,
                   metricVars>>

\* line 82
LoadTokenizer ==
    /\ pc = "load_tokenizer"
    /\ trace' = Append(trace, "LoadTokenizer")
    /\ tokenizer' = args["model_name"]
    /\ pc' = "training_args"
    /\ UNCHANGED <<failedAt, environ, argv, defaults, args, stdout,
                   train_dataset, test_dataset, model, training_args, trainer,
                   epochs_done, epoch_evals, eval_result, loads, file0, file,
                   writer, towrite, saved, metricVars>>

\* line 82: from_pretrained raises
LoadTokenizerFails ==
    /\ pc = "load_tokenizer"
    /\ trace' = Append(trace, "LoadTokenizer")
    /\ Raise("LoadModel")
    /\ UNCHANGED <<environ, argv, defaults, args, stdout, train_dataset,
                   test_dataset, model, tokenizer, training_args, trainer,
                   epochs_done, epoch_evals, eval_result, loads, file0, file,
                   writer, towrite, saved, metricVars>>

\* lines 85-94: float(args.learning_rate) is evaluated here
BuildTrainingArguments ==
    /\ pc = "training_args"
    /\ IsFloat(args["learning_rate"])
    /\ training_args' =
           [output_dir |-> args["model_dir"],
            num_train_epochs |-> args["epochs"],
            per_device_train_batch_size |-> args["train_batch_size"],
            per_device_eval_batch_size |-> args["eval_batch_size"],
            warmup_steps |-> args["warmup_steps"],
            evaluation_strategy |-> "epoch",
            logging_dir |-> args["output_data_dir"] \o "/logs",
            learning_rate |-> PyFloat(args["learning_rate"])]
    /\ pc' = "create_trainer"
    /\ UNCHANGED <<failedAt, trace, environ, argv, defaults, args, stdout,
                   train_dataset, test_dataset, model, tokenizer, trainer,
                   epochs_done, epoch_evals, eval_result, loads, file0, file,
                   writer, towrite, saved, metricVars>>

\* line 93: ValueError from float()
BuildTrainingArgumentsValueError ==
    /\ pc = "training_args"
    /\ ~IsFloat(args["learning_rate"])
    /\ Raise("Train")
    /\ UNCHANGED <<trace, environ, argv, defaults, args, stdout,
                   train_dataset, test_dataset, model, tokenizer,
                   training_args, trainer, epochs_done, epoch_evals,
                   eval_result, loads, file0, file, writer, towrite, saved,
                   metricVars>>

\* lines 97-102
CreateTrainer ==
    /\ pc = "create_trainer"
    /\ trainer' \in TrainerKinds
    /\ pc' = "start_train"
    /\ UNCHANGED <<failedAt, trace, environ, argv, defaults, args, stdout,
                   train_dataset, test_dataset, model, tokenizer,
                   training_args, epochs_done, epoch_evals, eval_result,
                   loads, file0, file, writer, towrite, saved, metricVars>>

\* lines 105-106: control enters trainer.train()
StartTrain ==
    /\ pc = "start_train"
    /\ trace' = Append(trace, "Train")
    /\ pc' = "train"
    /\ UNCHANGED <<failedAt, environ, argv, defaults, args, stdout,
                   train_dataset, test_dataset, model, tokenizer,
                   training_args, trainer, epochs_done, epoch_evals,
                   eval_result, loads, file0, file, writer, towrite, saved,
                   metricVars>>

\* inside trainer.train(): one epoch, then the evaluation that
\* evaluation_strategy="epoch" asks for (line 91)
TrainEpoch ==
    /\ pc = "train"
    /\ epochs_done < training_args.num_train_epochs
    /\ epochs_done' = epochs_done + 1
    /\ \E logits \in [1..TestSize -> RunRows] :
           epoch_evals' =
               Append(epoch_evals,
                      EvaluationLoop(trainer, test_dataset.labels, logits,
                                     epochs_done + 1))
    /\ UNCHANGED <<pc, failedAt, trace, environ, argv, defaults, args,
                   stdout, train_dataset, test_dataset, model, tokenizer,
                   training_args, trainer, eval_result, loads, file0, file,
                   writer, towrite, saved, metricVars>>

\* line 106: an exception inside the training loop
TrainFails ==
    /\ pc = "train"
    /\ Raise("Train")
    /\ UNCHANGED <<trace, environ, argv, defaults, args, stdout,
                   train_dataset, test_dataset, model, tokenizer,
                   training_args, trainer, epochs_done, epoch_evals,
                   eval_result, loads, file0, file, writer, towrite, saved,
                   metricVars>>

\* lines 106-107: trainer.train() returns
TrainReturns ==
    /\ pc = "train"
    /\ epochs_done >= training_args.num_train_epochs
    /\ stdout' = stdout + 1
    /\ pc' = "evaluate"
    /\ UNCHANGED <<failedAt, trace, environ, argv, defaults, args,
                   train_dataset, test_dataset, model, tokenizer,
                   training_args, trainer, epochs_done, epoch_evals,
                   eval_result, loads, file0, file, writer, towrite, saved,
                   metricVars>>

\* line 111
Evaluate ==
    /\ pc = "evaluate"
    /\ trace' = Append(trace, "Evaluate")
    /\ \E logits \in [1..TestSize -> RunRows] :
           eval_result' = EvaluationLoop(trainer, test_dataset.labels, logits,
                                         epochs_done)
    /\ pc' = "open"
    /\ UNCHANGED <<failedAt, environ, argv, defaults, args, stdout,
                   train_dataset, test_dataset, model, tokenizer,
                   training_args, trainer, epochs_done, epoch_evals, loads,
                   file0, file, writer, towrite, saved, metricVars>>

\* the results file is opened before the evaluation is run
EvaluateFailsFileOpen ==
    /\ pc = "evaluate"
    /\ trace' = Append(trace, "Evaluate")
    /\ file' = ""
    /\ Raise("Evaluate")
    /\ UNCHANGED <<environ, argv, defaults, args, stdout, train_dataset,
                   test_dataset, model, tokenizer, training_args, trainer,
                   epochs_done, epoch_evals, eval_result, loads, file0,
                   writer, towrite, saved, metricVars>>

\* line 111: trainer.evaluate raises
EvaluateFails ==
    /\ pc = "evaluate"
    /\ trace' = Append(trace, "Evaluate")
    /\ Raise("Evaluate")
    /\ UNCHANGED <<environ, argv, defaults, args, stdout, train_dataset,
                   test_dataset, model, tokenizer, training_args, trainer,
                   epochs_done, epoch_evals, eval_result, loads, file0, file,
                   writer, towrite, saved, metricVars>>

\* the loop runs over the last evaluation made during training
OpenResultsFileLastEpoch ==
    /\ pc = "open"
    /\ trace' = Append(trace, "WriteResults")
    /\ file' = ""
    /\ writer' = "open"
    /\ stdout' = stdout + 1
    /\ towrite' = SortedItems(IF epoch_evals = <<>> THEN eval_result
                              ELSE epoch_evals[Len(epoch_evals)])
    /\ pc' = "write"
    /\ UNCHANGED <<failedAt, environ, argv, defaults, args, train_dataset,
                   test_dataset, model, tokenizer, training_args, trainer,
                   epochs_done, epoch_evals, eval_result, loads, file0, saved,
                   metricVars>>

\* lines 115-117: open(..., "w") creates or truncates the file; the loop
\* is entered over sorted(eval_result.items())
OpenResultsFile ==
    /\ pc = "open"
    /\ trace' = Append(trace, "WriteResults")
    /\ file' = ""
    /\ writer' = "open"
    /\ stdout' = stdout + 1
    /\ towrite' = SortedItems(eval_result)
    /\ pc' = "write"
    /\ UNCHANGED <<failedAt, environ, argv, defaults, args, train_dataset,
                   test_dataset, model, tokenizer, training_args, trainer,
                   epochs_done, epoch_evals, eval_result, loads, file0, saved,
                   metricVars>>

\* line 115: open raises (directory missing or not writable)
OpenResultsFileFails ==
    /\ pc = "open"
    /\ trace' = Append(trace, "WriteResults")
    /\ Raise("Persist")
    /\ UNCHANGED <<environ, argv, defaults, args, stdout, train_dataset,
                   test_dataset, model, tokenizer, training_args, trainer,
                   epochs_done, epoch_evals, eval_result, loads, file0, file,
                   writer, towrite, saved, metricVars>>

\* line 118, one iteration
WriteLine ==
    /\ pc = "write"
    /\ towrite # <<>>
    /\ file' = file \o FormatLine(Head(towrite)[1], Head(towrite)[2])
    /\ towrite' = Tail(towrite)
    /\ UNCHANGED <<pc, failedAt, trace, environ, argv, defaults, args,
                   stdout, train_dataset, test_dataset, model, tokenizer,
                   training_args, trainer, epochs_done, epoch_evals,
                   eval_result, loads, file0, writer, saved, metricVars>>

\* line 118: a write raises; the with block closes the file on the way out
WriteLineFails ==
    /\ pc = "write"
    /\ towrite # <<>>
    /\ writer' = "closed"
    /\ Raise("Persist")
    /\ UNCHANGED <<trace, environ, argv, defaults, args, stdout,
                   train_dataset, test_dataset, model, tokenizer,
                   training_args, trainer, epochs_done, epoch_evals,
                   eval_result, loads, file0, file, towrite, saved,
                   metricVars>>

\* line 118: the loop ends and the with block closes the file
CloseResultsFile ==
    /\ pc = "write"
    /\ towrite = <<>>
    /\ writer' = "closed"
    /\ pc' = "save_model"
    /\ UNCHANGED <<failedAt, trace, environ, argv, defaults, args, stdout,
                   train_dataset, test_dataset, model, tokenizer,
                   training_args, trainer, epochs_done, epoch_evals,
                   eval_result, loads, file0, file, towrite, saved,
                   metricVars>>

\* line 121, then the script ends
SaveModel ==
    /\ pc = "save_model"
    /\ trace' = trace \o <<"SaveModel", "Exit">>
    /\ saved' = TRUE
    /\ pc' = "done"
    /\ UNCHANGED <<failedAt, environ, argv, defaults, args, stdout,
                   train_dataset, test_dataset, model, tokenizer,
                   training_args, trainer, epochs_done, epoch_evals,
                   eval_result, loads, file0, file, writer, towrite,
                   metricVars>>

\* line 121: save_model raises
SaveModelFails ==
    /\ pc = "save_model"
    /\ trace' = Append(trace, "SaveModel")
    /\ Raise("Persist")
    /\ UNCHANGED <<environ, argv, defaults, args, stdout, train_dataset,
                   test_dataset, model, tokenizer, training_args, trainer,
                   epochs_done, epoch_evals, eval_result, loads, file0, file,
                   writer, towrite, saved, metricVars>>

Next ==
    \/ AddHyperparameterArguments
    \/ AddDirArgument
    \/ AddDirArgumentKeyError
    \/ ParseKnownArgs
    \/ ParseKnownArgsError
    \/ PrintArgs
    \/ LoadTrainDataset
    \/ LoadTrainDatasetFails
    \/ LoadTestDataset
    \/ LoadTestDatasetFails
    \/ LoadModel
    \/ LoadModelFails
    \/ print_trainable_parameters
    \/ print_trainable_parametersZeroDivision
    \/ LoadTokenizer
    \/ LoadTokenizerFails
    \/ BuildTrainingArguments
    \/ BuildTrainingArgumentsValueError
    \/ CreateTrainer
    \/ StartTrain
    \/ TrainEpoch
    \/ TrainFails
    \/ TrainReturns
    \/ Evaluate
    \/ EvaluateFails
    \/ OpenResultsFile
    \/ OpenResultsFileFails
    \/ WriteLine
    \/ WriteLineFails
    \/ CloseResultsFile
    \/ SaveModel
    \/ SaveModelFails

Spec == Init /\ [][Next]_vars

----------------------------------------------------------------------------
(* compute_metrics on its own: every small batch, and the batch of the      *)
(* documented example                                                      *)

\* argmax sees only how the two scores of a row compare: three values give
\* every ordering, ties included
Scores == {0 - 1, 0, 1}
Rows == [1..2 -> Scores]

\* labels beyond 0/1 are what makes average="binary" reject its input
LabelValues == {0, 1, 2}

ExampleLabels == <<0, 1, 1, 0>>
\* scores in tenths
ExampleLogits == <<<<9, 1>>, <<2, 8>>, <<6, 4>>, <<3, 7>>>>

Batches ==
    {<<ExampleLabels, ExampleLogits>>} \cup
    UNION {[1..n -> LabelValues] \X [1..n -> Rows] : n \in 1..MaxLen}

\* _check_set_wise_labels under average="binary": the targets are not
\* binary, or they are and pos_label 1 is not among two present labels
BinaryAverageRejects(labels, preds) ==
    LET present == {labels[i] : i \in 1..Len(labels)} \cup
                   {preds[i] : i \in 1..Len(preds)}
    IN  \/ Cardinality(present) > 2
        \/ 1 \notin present /\ Cardinality(present) >= 2

MetricsInit ==
    /\ pc = "callback"
    /\ failedAt = "none"
    /\ trace = <<>>
    /\ environ = EnvironmentOf(EnvNames)
    /\ argv = [x \in {} |-> NoArg]
    /\ defaults = [x \in {} |-> None]
    /\ args = [x \in {} |-> None]
    /\ stdout = 0
    /\ train_dataset = None
    /\ test_dataset = None
    /\ model = None
    /\ tokenizer = None
    /\ training_args = None
    /\ trainer = None
    /\ epochs_done = 0
    /\ epoch_evals = <<>>
    /\ eval_result = [x \in {} |-> Zero]
    /\ loads = 0
    /\ file0 = NoFile
    /\ file = NoFile
    /\ writer = "closed"
    /\ towrite = <<>>
    /\ saved = FALSE
    /\ m_pc = "called"
    /\ \E b \in Batches : m_labels = b[1] /\ m_logits = b[2]
    /\ m_result = [x \in {} |-> Zero]

\* lines 70-75
ComputeMetricsReturns ==
    /\ m_pc = "called"
    /\ ~BinaryAverageRejects(m_labels, Preds(m_logits))
    /\ m_result' = compute_metrics(m_logits, m_labels)
    /\ m_pc' = "returned"
    /\ UNCHANGED <<runVars, m_labels, m_logits>>

\* line 73: ValueError from precision_recall_fscore_support
ComputeMetricsRaises ==
    /\ m_pc = "called"
    /\ BinaryAverageRejects(m_labels, Preds(m_logits))
    /\ m_pc' = "raised"
    /\ UNCHANGED <<runVars, m_labels, m_logits, m_result>>

MetricsNext == ComputeMetricsReturns \/ ComputeMetricsRaises

SpecMetrics == MetricsInit /\ [][MetricsNext]_vars

----------------------------------------------------------------------------
(* Properties of compute_metrics *)

BinaryLabels == \A i \in 1..Len(m_labels) : m_labels[i] \in {0, 1}
Finished == m_pc # "called"

\* the class predicted for one example: the index of its maximum score,
\* the lower index when both scores are equal
PredictedClass(row) == IF row[2] > row[1] THEN 1 ELSE 0

Predicted == [i \in 1..Len(m_logits) |-> PredictedClass(m_logits[i])]

NumTP(p) == Cardinality({i \in 1..Len(p) : p[i] = 1 /\ m_labels[i] = 1})
NumFP(p) == Cardinality({i \in 1..Len(p) : p[i] = 1 /\ m_labels[i] = 0})
NumFN(p) == Cardinality({i \in 1..Len(p) : p[i] = 0 /\ m_labels[i] = 1})
NumHit(p) == Cardinality({i \in 1..Len(p) : p[i] = m_labels[i]})

\* the quotient n/d; there is none when d = 0
Quotient(n, d) == IF d = 0 THEN <<>> ELSE Frac(n, d)

\* the quotient n/d, and 0.0 when d = 0
QuotientOrZero(n, d) == IF d = 0 THEN <<0, 1>> ELSE Frac(n, d)

\* C6 as stated: for every non-empty batch of two-class scores and 0/1
\* labels compute_metrics returns exactly accuracy, f1, precision, recall
\* over the max-score predictions, with accuracy = hits/n,
\* precision = TP/(TP+FP), recall = TP/(TP+FN), F1 = 2TP/(2TP+FP+FN).
C6_AsStated ==
    (Finished /\ BinaryLabels) =>
        /\ m_pc = "returned"
        /\ DOMAIN m_result = {"accuracy", "f1", "precision", "recall"}
        /\ LET p == Predicted IN
              /\ m_result["accuracy"] = Quotient(NumHit(p), Len(p))
              /\ m_result["precision"] =
                     Quotient(NumTP(p), NumTP(p) + NumFP(p))
              /\ m_result["recall"] = Quotient(NumTP(p), NumTP(p) + NumFN(p))
              /\ m_result["f1"] =
                     Quotient(2 * NumTP(p), 2 * NumTP(p) + NumFP(p) + NumFN(p))

\* C6 amended: the same, except that precision, recall and F1 are 0.0 where
\* their denominator is zero; the documented example yields predictions
\* [0,1,0,1], accuracy 1/2, precision 1/2, recall 1/2.
C6_Metrics ==
    (Finished /\ BinaryLabels) =>
        /\ m_pc = "returned"
        /\ DOMAIN m_result = {"accuracy", "f1", "precision", "recall"}
        /\ LET p == Predicted IN
              /\ m_result["accuracy"] = Quotient(NumHit(p), Len(p))
              /\ m_result["precision"] =
                     QuotientOrZero(NumTP(p), NumTP(p) + NumFP(p))
              /\ m_result["recall"] =
                     QuotientOrZero(NumTP(p), NumTP(p) + NumFN(p))
              /\ m_result["f1"] =
                     QuotientOrZero(2 * NumTP(p),
                                    2 * NumTP(p) + NumFP(p) + NumFN(p))
        /\ (m_labels = ExampleLabels /\ m_logits = ExampleLogits) =>
              /\ Predicted = <<0, 1, 0, 1>>
              /\ m_result["accuracy"] = <<1, 2>>
              /\ m_result["precision"] = <<1, 2>>
              /\ m_result["recall"] = <<1, 2>>

\* the documented example has been computed
C6_Witness ==
    /\ m_pc = "returned"
    /\ m_labels = ExampleLabels
    /\ m_logits = ExampleLogits

AllMatch == \A i \in 1..Len(m_labels) : Predicted[i] = m_labels[i]

AllOnes ==
    /\ m_result["accuracy"] = <<1, 1>>
    /\ m_result["precision"] = <<1, 1>>
    /\ m_result["recall"] = <<1, 1>>
    /\ m_result["f1"] = <<1, 1>>

\* C7 as stated: whenever every predicted class equals its label, whatever
\* the labels are, accuracy, precision, recall and F1 are all 1.0.
C7_AsStated ==
    (Finished /\ BinaryLabels /\ AllMatch) => (m_pc = "returned" /\ AllOnes)

\* C7 amended: whenever every predicted class equals its label and some
\* label is 1, the four metrics are 1.0; when every label is 0, accuracy
\* is 1.0 and precision, recall and F1 are 0.0.
C7_PerfectBatch ==
    (Finished /\ BinaryLabels /\ AllMatch) =>
        /\ m_pc = "returned"
        /\ (\E i \in 1..Len(m_labels) : m_labels[i] = 1) => AllOnes
        /\ (\A i \in 1..Len(m_labels) : m_labels[i] = 0) =>
              /\ m_result["accuracy"] = <<1, 1>>
              /\ m_result["precision"] = <<0, 1>>
              /\ m_result["recall"] = <<0, 1>>
              /\ m_result["f1"] = <<0, 1>>

\* a perfectly predicted batch holding both classes has been scored
C7_Witness ==
    /\ m_pc = "returned"
    /\ BinaryLabels
    /\ AllMatch
    /\ \E i, j \in 1..Len(m_labels) : m_labels[i] = 1 /\ m_labels[j] = 0

NoPositives ==
    /\ \A i \in 1..Len(m_labels) : m_labels[i] = 0
    /\ \A i \in 1..Len(m_logits) : Predicted[i] = 0

\* C8: for a batch with no example predicted 1 and none labelled 1 the call
\* returns (no error), and precision, recall and F1 are the fallback 0.0.
C8_ZeroFallback ==
    (Finished /\ NoPositives) =>
        /\ m_pc = "returned"
        /\ m_result["precision"] = <<0, 1>>
        /\ m_result["recall"] = <<0, 1>>
        /\ m_result["f1"] = <<0, 1>>

\* such a batch of more than one example has been scored
C8_Witness ==
    /\ Finished
    /\ NoPositives
    /\ Len(m_labels) > 1

----------------------------------------------------------------------------
(* Properties of a run *)

Range(s) == {s[i] : i \in 1..Len(s)}
IsPrefix(s, t) == Len(s) <= Len(t) /\ \A i \in 1..Len(s) : s[i] = t[i]

Order ==
    <<"Configure", "LoadTrain", "LoadTest", "LoadModel", "LoadTokenizer",
      "Train", "Evaluate", "WriteResults", "SaveModel", "Exit">>

\* C1: the operations start only in the fixed order, each at most once and
\* none again after a later one; once an operation has failed nothing
\* further happens, and the run never reports both a failure and Exit.
C1_LinearOrder ==
    /\ [](/\ IsPrefix(trace, Order)
          /\ pc = "failed" => "Exit" \notin Range(trace)
          /\ pc = "done" <=> (trace # <<>> /\ trace[Len(trace)] = "Exit"))
    /\ [][/\ Len(trace') >= Len(trace)
          /\ pc = "failed" => (pc' = "failed" /\ trace' = trace)]_vars

\* a run has gone through every operation
C1_Witness == pc = "done" /\ trace = Order

ConfigurePcs == {"add_hyper", "add_dir", "parse", "print_args"}

MissingEnv == {v \in EnvNames : v \notin DOMAIN environ}

\* C2: with any required environment variable absent the run cannot leave
\* the building of the parser other than by failing in Configure, and
\* load_from_disk is never attempted.
C2_FailFastEnv ==
    MissingEnv # {} =>
        /\ pc \in {"add_hyper", "add_dir", "failed"}
        /\ pc = "failed" => failedAt = "Configure"
        /\ loads = 0
        /\ "LoadTrain" \notin Range(trace)
        /\ "LoadTest" \notin Range(trace)

\* the run has failed on the last variable read, the only one absent
C2_Witness ==
    /\ pc = "failed"
    /\ MissingEnv = {"SM_CHANNEL_TEST"}
    /\ DirFlagNames \cap DOMAIN defaults =
           DirFlagNames \ {"test_dir"}

\* the key of S that no other key of S is smaller than
Smallest(S) == CHOOSE k \in S : \A j \in S : ~KeyLess(j, k)

\* the lines key = value of d for the keys in S, in ascending key order
RECURSIVE TextOf(_, _)
TextOf(d, S) ==
    IF S = {} THEN ""
    ELSE LET k == Smallest(S)
         IN  k \o " = " \o PyStr(d[k]) \o "\n" \o TextOf(d, S \ {k})

FullText(d) == TextOf(d, DOMAIN d)

\* C3: a run that fails before Persist leaves eval_results.txt as it was
\* and never opens it; a file that is neither the old one nor the complete
\* new one exists only while the lines are written or after that has failed.
C3_NoEarlyResults ==
    /\ (pc \notin {"write", "save_model", "done", "failed"}) =>
           (file = file0 /\ writer = "closed")
    /\ (pc = "failed" /\ failedAt # "Persist") =>
           /\ file = file0
           /\ writer = "closed"
           /\ "WriteResults" \notin Range(trace)
    /\ (/\ pc \in {"failed", "done", "save_model"}
        /\ file # file0
        /\ ~(/\ pc = "failed"
             /\ failedAt = "Persist"
             /\ trace[Len(trace)] = "WriteResults")) =>
           file = FullText(eval_result)

\* the explicit evaluation has failed next to an existing results file
C3_Witness ==
    /\ pc = "failed"
    /\ failedAt = "Evaluate"
    /\ file0 = StaleFile
    /\ file = StaleFile

C5_FinalEvaluation ==
    /\ pc = "write" =>
           /\ \A i \in 1..Len(towrite) :
                  /\ towrite[i][1] \in DOMAIN eval_result
                  /\ towrite[i][2] = eval_result[towrite[i][1]]
    /\ pc \in {"write", "save_model", "done"} =>
           /\ Len(epoch_evals) = epochs_done
           /\ IsPrefix(<<"Train", "Evaluate", "WriteResults">>,
                       SubSeq(trace, 6, Len(trace)))
    /\ pc \in {"save_model", "done"} =>
           /\ file = FullText(eval_result)
           /\ \A i \in 1..Len(epoch_evals) :
                  epoch_evals[i] # eval_result =>
                      file # FullText(epoch_evals[i])

\* a run of two epochs whose last epoch evaluation differs from the final
C5_Witness ==
    /\ pc = "done"
    /\ Len(epoch_evals) = 2
    /\ epoch_evals[2] # eval_result
    /\ epoch_evals[1] # eval_result

\* an option whose value cannot be coerced to its type
BadTypedOption ==
    \/ \E f \in IntFlags \cap DOMAIN argv : ~IsInt(argv[f])
    \/ /\ "learning_rate" \in DOMAIN argv
       /\ argv["learning_rate"] \notin {"5e-5", "0.001"}

\* C9 as stated: with an uncoercible value for a typed option the run fails
\* in Configure, before any dataset or model is loaded and with no side
\* effect but printing.
C9_AsStated ==
    BadTypedOption =>
        /\ pc \in ConfigurePcs \cup {"failed"}
        /\ pc = "failed" => failedAt = "Configure"
        /\ loads = 0
        /\ trace \in {<<>>, <<"Configure">>}

\* C10: a required variable that is absent stops the run before the command
\* line is parsed even when its flag is on the command line; once parsed,
\* a flag on the command line overrides the variable.
C10_EnvReadFirst ==
    /\ \A i \in 1..Len(RequiredEnv) :
           (RequiredEnv[i] \notin DOMAIN environ /\ DirFlags[i] \in DOMAIN argv)
               => (pc \in {"add_hyper", "add_dir", "failed"} /\ DOMAIN args = {})
    /\ pc \in {"parse", "print_args"} =>
           \A i \in 1..Len(RequiredEnv) :
               defaults[DirFlags[i]] = environ[RequiredEnv[i]]
    /\ DOMAIN args # {} =>
           \A i \in 1..Len(RequiredEnv) :
               args[DirFlags[i]] =
                   IF DirFlags[i] \in DOMAIN argv THEN argv[DirFlags[i]]
                   ELSE environ[RequiredEnv[i]]

\* the run has failed on an absent variable whose flag was supplied
C10_Witness ==
    /\ pc = "failed"
    /\ \E i \in 1..Len(RequiredEnv) :
           /\ MissingEnv = {RequiredEnv[i]}
           /\ DirFlags[i] \in DOMAIN argv

====
